---- MODULE Spec2Model ----
(***************************************************************************)
(* Model of the PageSpeed checker backend (src/backend/server.js): the     *)
(* Analyze handler POST /api/pagespeed and the Compare handler             *)
(* POST /api/pagespeed/compare, together with the upstream provider they   *)
(* call through axios.                                                     *)
(*                                                                         *)
(* JavaScript values are modelled as follows.  A string that the code      *)
(* inspects character by character (the url) is a tuple of one-character   *)
(* strings; other strings are TLA+ strings.  An object is a function with  *)
(* a string domain, and a property that is absent is a key that is not in  *)
(* the domain.  Numbers that may also be null, undefined or NaN are tagged *)
(* records (Num, Null, Undef, NaN).  A message built by a template literal *)
(* is the tuple of its parts.                                              *)
(***************************************************************************)
EXTENDS Integers, Sequences, FiniteSets, TLC

(***************************************************************************)
(* Bounds of the model.                                                    *)
(***************************************************************************)
\* urls drawn exhaustively over UrlAlphabet have at most this many characters
MaxUrlLen == 2
\* category lists in a request body have at most this many entries
MaxCategories == 2

(***************************************************************************)
(* Characters and strings.                                                 *)
(***************************************************************************)
ASCIIAlpha ==
  {"a","b","c","d","e","f","g","h","i","j","k","l","m",
   "n","o","p","q","r","s","t","u","v","w","x","y","z"}

ASCIIDigit == {"0","1","2","3","4","5","6","7","8","9"}

DigitVal(c) ==
  CASE c = "0" -> 0 [] c = "1" -> 1 [] c = "2" -> 2 [] c = "3" -> 3
    [] c = "4" -> 4 [] c = "5" -> 5 [] c = "6" -> 6 [] c = "7" -> 7
    [] c = "8" -> 8 [] c = "9" -> 9

\* forbidden host code points of the URL standard that the drawn inputs use
ForbiddenHostChars == {" ", "#", "/", ":", "<", ">", "?", "@", "[", "\\", "]", "^", "|"}

SpecialSchemes ==
  { <<"h","t","t","p">>, <<"h","t","t","p","s">>, <<"f","t","p">>,
    <<"w","s">>, <<"w","s","s">> }

FileScheme == <<"f","i","l","e">>

RECURSIVE TrimLeft(_)
TrimLeft(s) ==
  IF s # <<>> /\ Head(s) = " " THEN TrimLeft(Tail(s)) ELSE s

RECURSIVE TrimRight(_)
TrimRight(s) ==
  IF s # <<>> /\ s[Len(s)] = " " THEN TrimRight(SubSeq(s, 1, Len(s) - 1)) ELSE s

\* the URL parser first strips leading and trailing C0 control or space
Trim(s) == TrimRight(TrimLeft(s))

\* index of the first element of s that lies in set, or Len(s) + 1
FirstIn(s, set) ==
  IF \E i \in 1..Len(s) : s[i] \in set
    THEN CHOOSE i \in 1..Len(s) : s[i] \in set /\ \A j \in 1..(i - 1) : s[j] \notin set
    ELSE Len(s) + 1

\* index of the last element of s that lies in set, or 0
LastIn(s, set) ==
  IF \E i \in 1..Len(s) : s[i] \in set
    THEN CHOOSE i \in 1..Len(s) : s[i] \in set /\ \A j \in (i + 1)..Len(s) : s[j] \notin set
    ELSE 0

RECURSIVE DropWhileIn(_, _)
DropWhileIn(s, set) ==
  IF s # <<>> /\ Head(s) \in set THEN DropWhileIn(Tail(s), set) ELSE s

RECURSIVE DecimalValue(_)
DecimalValue(s) ==
  IF s = <<>> THEN 0
  ELSE 10 * DecimalValue(SubSeq(s, 1, Len(s) - 1)) + DigitVal(s[Len(s)])

(***************************************************************************)
(* new URL(string) without a base: the scheme start state, the scheme      *)
(* state, then the authority of a special scheme (host and port) or the    *)
(* path of a non-special scheme.  Hosts of the drawn inputs are domain     *)
(* names, so the number forms of a host (IPv4, IPv6) are not modelled.     *)
(***************************************************************************)
\* position of the ":" that ends the scheme, 0 when the input has no scheme
SchemeEnd(s) ==
  LET i == FirstIn(s, {":"})
  IN  IF /\ i <= Len(s)
         /\ i > 1
         /\ s[1] \in ASCIIAlpha
         /\ \A j \in 2..(i - 1) : s[j] \in ASCIIAlpha \cup ASCIIDigit \cup {"+", "-", "."}
      THEN i ELSE 0

\* the port state: ASCII digits only, and a value of at most 65535
PortOk(port) ==
  /\ \A i \in 1..Len(port) : port[i] \in ASCIIDigit
  /\ Len(port) <= 5
  /\ DecimalValue(port) <= 65535

\* the authority and host states of a special scheme; the host must not be empty
SpecialAuthorityOk(rest) ==
  LET r         == DropWhileIn(rest, {"/", "\\"})
      authority == SubSeq(r, 1, FirstIn(r, {"/", "\\", "?", "#"}) - 1)
      at        == LastIn(authority, {"@"})
      hostport  == SubSeq(authority, at + 1, Len(authority))
      colon     == FirstIn(hostport, {":"})
      host      == SubSeq(hostport, 1, colon - 1)
      port      == SubSeq(hostport, colon + 1, Len(hostport))
  IN  /\ host # <<>>
      /\ \A i \in 1..Len(host) : host[i] \notin ForbiddenHostChars
      /\ PortOk(port)

\* a non-special scheme followed by "//" has an opaque host, which may be empty
OpaqueAuthorityOk(rest) ==
  LET r         == SubSeq(rest, 3, Len(rest))
      authority == SubSeq(r, 1, FirstIn(r, {"/", "?", "#"}) - 1)
      at        == LastIn(authority, {"@"})
      hostport  == SubSeq(authority, at + 1, Len(authority))
      colon     == FirstIn(hostport, {":"})
      host      == SubSeq(hostport, 1, colon - 1)
      port      == SubSeq(hostport, colon + 1, Len(hostport))
  IN  /\ at > 0 => host # <<>>
      /\ \A i \in 1..Len(host) : host[i] \notin ForbiddenHostChars
      /\ PortOk(port)

URLParses(string) ==
  LET s      == Trim(string)
      i      == SchemeEnd(s)
      scheme == SubSeq(s, 1, i - 1)
      rest   == SubSeq(s, i + 1, Len(s))
  IN  /\ i > 0
      /\ IF scheme = FileScheme THEN TRUE
         ELSE IF scheme \in SpecialSchemes THEN SpecialAuthorityOk(rest)
         ELSE IF Len(rest) >= 2 /\ rest[1] = "/" /\ rest[2] = "/"
              THEN OpaqueAuthorityOk(rest)
         ELSE TRUE

\* a validator that takes anything with a dot or a scheme for a URL
isValidUrlLax(string) ==
  URLParses(string) \/ \E i \in 1..Len(string) : string[i] = "."

\* function isValidUrl(string): new URL(string) does not throw
isValidUrl(string) == URLParses(string)

(***************************************************************************)
(* JavaScript values.                                                      *)
(***************************************************************************)
\* the value of a string-typed binding that holds undefined
undefined == "<undefined>"

Num(n) == [t |-> "number", v |-> n]
Null   == [t |-> "null"]
Undef  == [t |-> "undefined"]
NaN    == [t |-> "NaN"]

Has(o, k) == k \in DOMAIN o

\* the scores s, in thousandths, for which s * 100 is a decimal half that the
\* double product does not reach: 0.145 * 100 is 14.499999999999998,
\* 0.285 * 100 is 28.499999999999996, 0.565 * 100 is 56.49999999999999 and
\* 0.575 * 100 is 57.49999999999999; every other product of a score of up
\* to three decimals lies on the side of the half where the decimal product lies
ProductBelowHalf == {145, 285, 565, 575}

\* x * 100 on a score held in thousandths: the double product, in thousandths,
\* kept below the half it does not reach
Times100(x) ==
  CASE x.t = "number"    -> Num(x.v * 100 - (IF x.v \in ProductBelowHalf THEN 1 ELSE 0))
    [] x.t = "null"      -> Num(0)
    [] OTHER             -> NaN

\* Math.round on a value held in thousandths: floor(x + 0.5), an integer
MathRound(x) ==
  IF x.t = "number" THEN Num((x.v + 500) \div 1000) ELSE NaN

\* JSON.stringify writes NaN as null
ToJSON(x) == IF x.t = "NaN" THEN Null ELSE x

(***************************************************************************)
(* Configuration.                                                          *)
(***************************************************************************)
PAGESPEED_API_URL == "https://www.googleapis.com/pagespeedonline/v5/runPagespeed"

\* timeout of every upstream call, in milliseconds
UpstreamTimeout == 30000

\* the values process.env.GOOGLE_API_KEY can have
ApiKeys == {undefined, "", "AIza-key"}

(***************************************************************************)
(* Request bodies.                                                         *)
(***************************************************************************)
UrlAlphabet == {"a", ":", "/", " ", "."}

RECURSIVE SeqsUpTo(_, _)
SeqsUpTo(S, n) ==
  IF n = 0 THEN {<<>>}
  ELSE LET shorter == SeqsUpTo(S, n - 1)
       IN  shorter \cup {Append(s, x) : s \in shorter, x \in S}

UrlSamples ==
  { <<"h","t","t","p",":","/","/","a",".","c","o","m">>,
    <<"h","t","t","p","s",":","/","/","a",".","i","o","/","x">>,
    <<"e","x","a","m","p","l","e",".","c","o","m">>,
    <<"n","o","t"," ","a"," ","u","r","l">>,
    <<"h","t","t","p",":","/","/">>,
    <<"h","t","t","p",":","/","/","a"," ","b">>,
    <<"a",".","c","o","m",":","8","0">> }

Urls == {u : u \in UrlSamples \cup SeqsUpTo(UrlAlphabet, MaxUrlLen)}

Strategies == {"mobile", "desktop", "tablet", "Mobile", ""}

CategoryNames == {"performance", "seo"}

CategoryLists == {c : c \in SeqsUpTo(CategoryNames, MaxCategories)}

\* a request body: each of url, strategy and categories is present or absent
Body(u, s, c) ==
  [k \in {x \in {"url", "strategy", "categories"} :
             \/ x = "url" /\ u # <<>>
             \/ x = "strategy" /\ s # <<>>
             \/ x = "categories" /\ c # <<>>} |->
     CASE k = "url" -> u[1] [] k = "strategy" -> s[1] [] k = "categories" -> c[1]]

Opt(S) == {<<>>} \cup {<<x>> : x \in S}

Bodies == {Body(u, s, c) : u \in Opt(Urls), s \in Opt(Strategies), c \in Opt(CategoryLists)}

(***************************************************************************)
(* The upstream provider: payloads of a 2xx answer, and failures.          *)
(***************************************************************************)
\* an entry of lighthouseResult.audits that carries one of the metrics
MetricAudit(key, score) ==
  [key |-> key,
   audit |-> [id |-> key, title |-> key, description |-> "metric", score |-> score,
              displayValue |-> "1.2 s", numericValue |-> Num(1200)]]

\* an entry of lighthouseResult.audits that carries estimated savings
SavingsAudit(key, ms) ==
  [key |-> key,
   audit |-> [id |-> key, title |-> key, description |-> "opportunity", score |-> Num(500),
              displayValue |-> "Potential savings",
              details |-> [type |-> "opportunity", overallSavingsMs |-> Num(ms)]]]

ScreenshotAudit ==
  [key |-> "final-screenshot",
   audit |-> [id |-> "final-screenshot", title |-> "Final Screenshot",
              details |-> [type |-> "screenshot", data |-> "data:image/jpeg;base64,AAAA"]]]

FullAudits ==
  << MetricAudit("first-contentful-paint", Num(980)),
     SavingsAudit("render-blocking-resources", 150),
     MetricAudit("largest-contentful-paint", Num(750)),
     MetricAudit("max-potential-fid", Num(600)),
     SavingsAudit("unused-css-rules", 50),
     MetricAudit("cumulative-layout-shift", Null),
     MetricAudit("speed-index", Num(910)),
     MetricAudit("total-blocking-time", Num(400)),
     SavingsAudit("uses-text-compression", 900),
     ScreenshotAudit >>

\* the same collection without the entry of the given key
AuditsWithout(key) == SelectSeq(FullAudits, LAMBDA e : e.key # key)

\* the same collection without its total-blocking-time entry
AuditsWithoutTBT == SelectSeq(FullAudits, LAMBDA e : e.key # "total-blocking-time")

\* the audit keys that result.metrics reads
MetricKeys ==
  << "first-contentful-paint", "largest-contentful-paint", "speed-index",
     "total-blocking-time", "cumulative-layout-shift" >>

\* the five metric audits, each with the given score
MetricAudits(score) == [i \in 1..Len(MetricKeys) |-> MetricAudit(MetricKeys[i], score)]

OpportunityKeys ==
  << "render-blocking-resources", "unused-css-rules", "uses-text-compression",
     "unused-javascript", "modern-image-formats", "uses-optimized-images",
     "offscreen-images", "server-response-time", "redirects" >>

\* audits with the given savings, in that order
SavingsAudits(ms) == [i \in 1..Len(ms) |-> SavingsAudit(OpportunityKeys[i], ms[i])]

\* savings of 50, 150, 900, 101, 99, 5000 and 200 ms after two of the metrics
SevenSavingsAudits ==
  SubSeq(MetricAudits(Num(900)), 1, 2)
    \o SavingsAudits(<<50, 150, 900, 101, 99, 5000, 200>>)
    \o SubSeq(MetricAudits(Num(900)), 3, 5)

\* more than five savings above 100 ms, and one of exactly 100 ms
ManySavingsAudits ==
  SavingsAudits(<<150, 100, 900, 101, 5000, 200, 300, 99, 400>>) \o MetricAudits(Num(900))

\* every metric audit with a score of null
NullScoreAudits == MetricAudits(Null) \o <<ScreenshotAudit>>

\* a final-screenshot audit without details, and one whose details have no data
ScreenshotWithoutDetails ==
  MetricAudits(Num(900))
    \o << [key |-> "final-screenshot",
           audit |-> [id |-> "final-screenshot", title |-> "Final Screenshot"]] >>

ScreenshotWithoutData ==
  MetricAudits(Num(900))
    \o << [key |-> "final-screenshot",
           audit |-> [id |-> "final-screenshot", title |-> "Final Screenshot",
                      details |-> [type |-> "screenshot"]]] >>

FieldData == [id |-> "https://a.com/", overall_category |-> "FAST"]

\* a payload whose performance category has the given score
ScoredPayload(score, audits) ==
  [lighthouseResult |-> [categories |-> [performance |-> [id |-> "performance", score |-> score]],
                         audits |-> audits],
   loadingExperience |-> FieldData]

\* category scores, held in thousandths: 0.9, 0.873, 0, 1, 0.125 and 0.285
ScoreSamples == {900, 873, 0, 1000, 125, 285}

\* the collections of audits that have every entry result.metrics reads
ReadableAudits ==
  { AuditsWithout("max-potential-fid"), AuditsWithout("final-screenshot"),
    SevenSavingsAudits, ManySavingsAudits, NullScoreAudits,
    ScreenshotWithoutDetails, ScreenshotWithoutData }

WellFormedPayloads ==
  {p : p \in {ScoredPayload(Num(s), FullAudits) : s \in ScoreSamples}
       \cup {ScoredPayload(Null, FullAudits)}
       \cup {[lighthouseResult |-> ScoredPayload(Num(900), FullAudits).lighthouseResult]}
       \cup {ScoredPayload(Num(900), audits) : audits \in ReadableAudits}}

\* 2xx payloads that lack a field the handlers read
MalformedPayloads ==
  { [kind |-> "pagespeedonline#result"],
    [lighthouseResult |-> [categories |-> [seo |-> [id |-> "seo", score |-> Num(900)]],
                           audits |-> FullAudits]],
    [lighthouseResult |-> [categories |-> [performance |-> [id |-> "performance"]],
                           audits |-> FullAudits]],
    ScoredPayload(Num(900), AuditsWithoutTBT) }

\* 2xx payloads whose audits lack one of the entries result.metrics reads
PayloadsWithoutMetric ==
  {ScoredPayload(Num(900), AuditsWithout(MetricKeys[i])) : i \in 1..Len(MetricKeys)}

Payloads == {p : p \in WellFormedPayloads \cup MalformedPayloads \cup PayloadsWithoutMetric}

\* the payloads that differ in what the Compare handler reads
ComparePayloads ==
  {p : p \in {ScoredPayload(Num(s), FullAudits) : s \in ScoreSamples}
       \cup {ScoredPayload(Null, FullAudits)}
       \cup (MalformedPayloads \ {ScoredPayload(Num(900), AuditsWithoutTBT)})}

\* bodies of a non-2xx answer (error.response.data)
ErrorBodies ==
  { [error |-> [code |-> 400, message |-> "API key not valid. Please pass a valid API key.",
                errors |-> <<[reason |-> "badRequest", domain |-> "global"]>>]],
    [error |-> [code |-> 403, message |-> "Quota exceeded for quota metric 'Queries'"]],
    [error |-> [code |-> 500, message |-> ""]],
    [status |-> "unavailable"] }

HttpErrorStatuses == {400, 403, 429, 404, 500, 503}

\* the rejection of axios.get for an answer outside 2xx
HttpError(status, data) ==
  [name |-> "AxiosError",
   message |-> <<"Request failed with status code ", ToString(status)>>,
   code |-> IF status < 500 THEN "ERR_BAD_REQUEST" ELSE "ERR_BAD_RESPONSE",
   response |-> [status |-> status, data |-> data]]

\* the rejection of axios.get when the timeout elapses
TimeoutError ==
  [name |-> "AxiosError",
   message |-> <<"timeout of ", ToString(UpstreamTimeout), "ms exceeded">>,
   code |-> "ECONNABORTED"]

\* rejections of axios.get without an answer and without a timeout
TransportErrors ==
  { [name |-> "Error", message |-> <<"getaddrinfo ENOTFOUND www.googleapis.com">>,
     code |-> "ENOTFOUND"],
    [name |-> "Error", message |-> <<"socket hang up">>, code |-> "ECONNRESET"] }

\* the TypeError of reading a property of undefined
TypeError ==
  [name |-> "TypeError", message |-> <<"Cannot read properties of undefined">>]

\* the state of the promise that axios.get returns
Pending == [status |-> "pending"]
Fulfilled(data) == [status |-> "fulfilled", value |-> [status |-> 200, data |-> data]]
Rejected(reason) == [status |-> "rejected", reason |-> reason]

(***************************************************************************)
(* Building the upstream query.                                            *)
(***************************************************************************)
\* params is an object whose keys keep their order of insertion: a sequence
\* of entries; an entry without a value field holds undefined
Param(name, value) == [name |-> name, value |-> value]

ParamOfString(name, value) ==
  IF value = undefined THEN [name |-> name] ELSE [name |-> name, value |-> value]

\* params[name] = value: overwrites the entry of that name, or adds one
SetParam(params, name, value) ==
  IF \E i \in 1..Len(params) : params[i].name = name
    THEN [i \in 1..Len(params) |->
            IF params[i].name = name THEN Param(name, value) ELSE params[i]]
    ELSE Append(params, Param(name, value))

\* categories.forEach(category => { params[`category`] = category })
RECURSIVE AddCategories(_, _)
AddCategories(params, categories) ==
  IF categories = <<>> THEN params
  ELSE AddCategories(SetParam(params, "category", Head(categories)), Tail(categories))

\* the query string axios sends: one pair per key, keys of undefined skipped
SerializeParams(params) == SelectSeq(params, LAMBDA e : Has(e, "value"))

\* axios.get(PAGESPEED_API_URL, {params, timeout})
UpstreamCall(params) ==
  [endpoint |-> PAGESPEED_API_URL, query |-> SerializeParams(params),
   timeout |-> UpstreamTimeout]

\* params of the Analyze handler
AnalyzeParams(url, strategy, categories, key) ==
  LET base    == << Param("url", url), Param("strategy", strategy) >>
      withKey == IF key # undefined /\ key # "" THEN SetParam(base, "key", key) ELSE base
  IN  AddCategories(withKey, categories)

\* two calls of the same strategy
CompareParamsBothMobile(url, strategy, key) ==
  << Param("url", url), Param("strategy", "mobile"),
     ParamOfString("key", key), Param("category", "performance") >>

\* params of one of the two calls of the Compare handler
CompareParams(url, strategy, key) ==
  << Param("url", url), Param("strategy", strategy),
     ParamOfString("key", key), Param("category", "performance") >>

(***************************************************************************)
(* Responses.                                                              *)
(***************************************************************************)
NoResponse == [status |-> 0]

Response(status, body) == [status |-> status, body |-> body]

Arr(s) == [t |-> "array", v |-> s]
Str(s) == [t |-> "string", v |-> s]

\* the time new Date().toISOString() returns
Now == "now"

(***************************************************************************)
(* The Analyze handler after a 2xx answer: the report.                     *)
(***************************************************************************)
HasAudit(audits, key) == \E i \in 1..Len(audits) : audits[i].key = key

GetAudit(audits, key) ==
  audits[CHOOSE i \in 1..Len(audits) : audits[i].key = key].audit

\* a report that does not read total-blocking-time
ReportMetricsWithoutTBT ==
  [firstContentfulPaint   |-> "first-contentful-paint",
   largestContentfulPaint |-> "largest-contentful-paint",
   speedIndex             |-> "speed-index",
   cumulativeLayoutShift  |-> "cumulative-layout-shift"]

\* the audit keys behind result.metrics
ReportMetrics ==
  [firstContentfulPaint   |-> "first-contentful-paint",
   largestContentfulPaint |-> "largest-contentful-paint",
   speedIndex             |-> "speed-index",
   totalBlockingTime      |-> "total-blocking-time",
   cumulativeLayoutShift  |-> "cumulative-layout-shift"]

\* reading the payload throws a TypeError
ExtractThrows(data) ==
  \/ ~Has(data, "lighthouseResult")
  \/ ~Has(data.lighthouseResult, "audits")
  \/ ~Has(data.lighthouseResult, "categories")
  \/ ~Has(data.lighthouseResult.categories, "performance")
  \/ \E m \in DOMAIN ReportMetrics :
        ~HasAudit(data.lighthouseResult.audits, ReportMetrics[m])

\* lighthouseResult.categories.performance.score
CategoryScore(data) ==
  LET performance == data.lighthouseResult.categories.performance
  IN  IF Has(performance, "score") THEN performance.score ELSE Undef

\* a sample whose score is read as audit.score || 0
MetricSampleCoerced(audit) ==
  [k \in {"score", "displayValue", "numericValue"} \cap DOMAIN audit |->
     IF k = "score" /\ audit[k] = Null THEN Num(0) ELSE audit[k]]

\* {score, displayValue, numericValue} of an audit; JSON leaves out undefined
MetricSample(audit) ==
  [k \in {"score", "displayValue", "numericValue"} \cap DOMAIN audit |-> audit[k]]

\* a threshold that 100 ms itself passes
IsOpportunityInclusive(audit) ==
  /\ Has(audit, "details")
  /\ Has(audit.details, "overallSavingsMs")
  /\ audit.details.overallSavingsMs.t = "number"
  /\ audit.details.overallSavingsMs.v >= 100

\* audit.details && audit.details.overallSavingsMs > 100
IsOpportunity(audit) ==
  /\ Has(audit, "details")
  /\ Has(audit.details, "overallSavingsMs")
  /\ audit.details.overallSavingsMs.t = "number"
  /\ audit.details.overallSavingsMs.v > 100

Opportunity(audit) ==
  [k \in {"savings"} \cup ({"title", "description", "displayValue"} \cap DOMAIN audit) |->
     IF k = "savings" THEN audit.details.overallSavingsMs ELSE audit[k]]

\* the loop over Object.entries(metrics)
Opportunities(audits) ==
  LET kept == SelectSeq(audits, LAMBDA e : IsOpportunity(e.audit))
  IN  [i \in 1..Len(kept) |-> Opportunity(kept[i].audit)]

\* array.slice(0, n)
Slice(s, n) == SubSeq(s, 1, IF Len(s) < n THEN Len(s) ELSE n)

TopOpportunities == 5

\* a report that never carries the screenshot
ScreenshotDropped(audits) == Null

\* lighthouseResult.audits['final-screenshot']?.details?.data || null
Screenshot(audits) ==
  IF /\ HasAudit(audits, "final-screenshot")
     /\ Has(GetAudit(audits, "final-screenshot"), "details")
     /\ Has(GetAudit(audits, "final-screenshot").details, "data")
     /\ GetAudit(audits, "final-screenshot").details.data # ""
  THEN Str(GetAudit(audits, "final-screenshot").details.data)
  ELSE Null

Report(url, strategy, data) ==
  LET audits == data.lighthouseResult.audits
  IN  [url |-> url,
       strategy |-> strategy,
       timestamp |-> Now,
       performanceScore |-> ToJSON(MathRound(Times100(CategoryScore(data)))),
       metrics |-> [m \in DOMAIN ReportMetrics |->
                      MetricSample(GetAudit(audits, ReportMetrics[m]))],
       opportunities |-> Slice(Opportunities(audits), TopOpportunities),
       fieldData |-> IF Has(data, "loadingExperience") THEN data.loadingExperience ELSE Null,
       screenshot |-> Screenshot(audits)]

(***************************************************************************)
(* The catch block of the Analyze handler.                                 *)
(***************************************************************************)
\* errorData?.error?.message || 'API request failed'
UpstreamMessage(errorData) ==
  IF /\ Has(errorData, "error")
     /\ Has(errorData.error, "message")
     /\ errorData.error.message # ""
  THEN errorData.error.message
  ELSE "API request failed"

\* errorData?.error?.errors || null
UpstreamDetails(errorData) ==
  IF Has(errorData, "error") /\ Has(errorData.error, "errors")
  THEN Arr(errorData.error.errors)
  ELSE Null

CredentialMessage ==
  <<"Invalid or missing Google API key. Please check your API key configuration.">>

\* a classifier that passes the upstream message through for a 403 as well
ClassifyResponseEcho(response) ==
  LET status  == response.status
      message == UpstreamMessage(response.data)
  IN  IF status = 400 THEN
        Response(400, [error |-> "Bad Request",
                       message |-> <<"Google API Error: ", message>>,
                       details |-> UpstreamDetails(response.data)])
      ELSE IF status = 403 THEN
        Response(403, [error |-> "API Key Error",
                       message |-> <<"Google API Error: ", message>>])
      ELSE IF status = 429 THEN
        Response(429, [error |-> "Rate Limited",
                       message |-> <<"Too many requests to Google API. Please try again later.">>])
      ELSE
        Response(status, [error |-> "API Error",
                          message |-> <<"Google API Error: ", message>>])

ClassifyResponse(response) ==
  LET status  == response.status
      message == UpstreamMessage(response.data)
  IN  IF status = 400 THEN
        Response(400, [error |-> "Bad Request",
                       message |-> <<"Google API Error: ", message>>,
                       details |-> UpstreamDetails(response.data)])
      ELSE IF status = 403 THEN
        Response(403, [error |-> "API Key Error", message |-> CredentialMessage])
      ELSE IF status = 429 THEN
        Response(429, [error |-> "Rate Limited",
                       message |-> <<"Too many requests to Google API. Please try again later.">>])
      ELSE
        Response(status, [error |-> "API Error",
                          message |-> <<"Google API Error: ", message>>])

\* a classifier without the branch for error.code === 'ECONNABORTED'
ClassifyWithoutTimeout(error) ==
  IF Has(error, "response") THEN ClassifyResponse(error.response)
  ELSE
    Response(500, [error |-> "Internal Server Error",
                   message |-> <<"An unexpected error occurred">>])

Classify(error) ==
  IF Has(error, "response") THEN ClassifyResponse(error.response)
  ELSE IF Has(error, "code") /\ error.code = "ECONNABORTED" THEN
    Response(408, [error |-> "Timeout",
                   message |-> <<"Request timed out. The website might be slow to respond.">>])
  ELSE
    Response(500, [error |-> "Internal Server Error",
                   message |-> <<"An unexpected error occurred">>])

(***************************************************************************)
(* The merge of the Compare handler.                                       *)
(***************************************************************************)
\* a join that resolves with the first promise to settle
AnySettled(promises) ==
  \E i \in 1..Len(promises) : promises[i].status # "pending"

\* Promise.allSettled resolves once no promise of the array is pending
AllSettled(promises) ==
  \A i \in 1..Len(promises) : promises[i].status # "pending"

\* reading one settled result throws a TypeError
OutcomeThrows(result) ==
  IF result.status = "fulfilled"
  THEN LET data == result.value.data
       IN  \/ ~Has(data, "lighthouseResult")
           \/ ~Has(data.lighthouseResult, "categories")
           \/ ~Has(data.lighthouseResult.categories, "performance")
  ELSE ~Has(result, "reason")

\* results.mobile or results.desktop
StrategyOutcome(result) ==
  IF result.status = "fulfilled"
  THEN [score |-> ToJSON(MathRound(Times100(CategoryScore(result.value.data)))),
        status |-> "success"]
  ELSE [score |-> Null, status |-> "failed", error |-> result.reason.message]

CompareFailure ==
  Response(500, [error |-> "Internal Server Error",
                 message |-> <<"Failed to compare mobile and desktop scores">>])

\* a merge that fails the request when either call was rejected
CompareMergeFailFast(url, mobileResponse, desktopResponse) ==
  IF \/ OutcomeThrows(mobileResponse) \/ OutcomeThrows(desktopResponse)
     \/ mobileResponse.status # "fulfilled" \/ desktopResponse.status # "fulfilled"
  THEN CompareFailure
  ELSE Response(200, [success |-> TRUE, url |-> url, timestamp |-> Now,
                      data |-> [mobile  |-> StrategyOutcome(mobileResponse),
                                desktop |-> StrategyOutcome(desktopResponse)]])

CompareMerge(url, mobileResponse, desktopResponse) ==
  IF OutcomeThrows(mobileResponse) \/ OutcomeThrows(desktopResponse)
  THEN CompareFailure
  ELSE Response(200, [success |-> TRUE, url |-> url, timestamp |-> Now,
                      data |-> [mobile  |-> StrategyOutcome(mobileResponse),
                                desktop |-> StrategyOutcome(desktopResponse)]])

(***************************************************************************)
(* State.                                                                  *)
(***************************************************************************)
VARIABLES
  PAGESPEED_API_KEY,  \* process.env.GOOGLE_API_KEY
  handler,            \* the route serving the request: "none", "analyze", "compare"
  pc,                 \* "Idle", "Requesting" (at the await), "Done", "Failed"
  body,               \* req.body
  calls,              \* the upstream calls the request has issued, in order
  promises,           \* the promise of each call
  res,                \* the response sent, NoResponse before
  app,                \* the frontend that is mounted: "App.tsx" or "animated"
  inputUrl,           \* the frontend's url state
  selectedStrategy,   \* the frontend's strategy state
  uiResult,           \* the frontend's result state
  loading,            \* the frontend's loading state
  uiError,            \* the frontend's error state
  isAnalyzing,        \* the animated frontend's isAnalyzing state
  showLightEffect,    \* the animated frontend's showLightEffect state
  timers,             \* the setTimeout callbacks not yet run, in order of creation
  fetching            \* the request checkSpeed awaits: <<>> or <<request>>

serverVars == <<PAGESPEED_API_KEY, handler, pc, body, calls, promises, res>>

uiVars == <<app, inputUrl, selectedStrategy, uiResult, loading, uiError,
            isAnalyzing, showLightEffect, timers, fetching>>

vars == <<PAGESPEED_API_KEY, handler, pc, body, calls, promises, res,
          app, inputUrl, selectedStrategy, uiResult, loading, uiError,
          isAnalyzing, showLightEffect, timers, fetching>>

\* the server has started and serves no request
ServerInit ==
  /\ PAGESPEED_API_KEY \in ApiKeys
  /\ handler = "none"
  /\ pc = "Idle"
  /\ body = <<>>
  /\ calls = <<>>
  /\ promises = <<>>
  /\ res = NoResponse

\* the useState initial values of the frontend a
Mounted(a) ==
  /\ app = a
  /\ inputUrl = <<>>
  /\ selectedStrategy = "mobile"
  /\ uiResult = Null
  /\ loading = FALSE
  /\ uiError = Null
  /\ isAnalyzing = FALSE
  /\ showLightEffect = FALSE
  /\ timers = <<>>
  /\ fetching = <<>>

Init == ServerInit /\ Mounted("App.tsx")

\* res.status(n).json(...) before any upstream call
Reject(response) ==
  /\ res' = response
  /\ pc' = "Failed"
  /\ UNCHANGED <<calls, promises>>

\* the calls made before the handler suspends at its await
Issue(newCalls) ==
  /\ calls' = newCalls
  /\ promises' = [i \in 1..Len(newCalls) |-> Pending]
  /\ pc' = "Requesting"
  /\ UNCHANGED res

(***************************************************************************)
(* POST /api/pagespeed, up to the await of axios.get.                      *)
(***************************************************************************)
UrlMissingOnlyAbsent(b) == ~Has(b, "url")

\* !url
UrlMissing(b) == ~Has(b, "url") \/ b.url = <<>>

ValidStrategiesWithTablet == {"mobile", "desktop", "tablet"}

\* ['mobile', 'desktop']
ValidStrategies == {"mobile", "desktop"}

DefaultStrategyDesktop == "desktop"

\* { url, strategy = 'mobile', categories = ['performance'] } = req.body
DefaultStrategy == "mobile"

DefaultCategories == <<"performance">>

UrlRequired ==
  Response(400, [error |-> "URL is required",
                 message |-> <<"Please provide a valid URL to analyze">>])

InvalidUrl ==
  Response(400, [error |-> "Invalid URL",
                 message |-> <<"Please provide a valid URL format (including http:// or https://)">>])

InvalidStrategy ==
  Response(400, [error |-> "Invalid strategy",
                 message |-> <<"Strategy must be either \"mobile\" or \"desktop\"">>])

\* a validation that looks at the strategy before the url
AnalyzeValidationStrategyFirst(b) ==
  LET strategy == IF Has(b, "strategy") THEN b.strategy ELSE DefaultStrategy
  IN  IF strategy \notin ValidStrategies THEN InvalidStrategy
      ELSE IF UrlMissing(b) THEN UrlRequired
      ELSE IF ~isValidUrl(b.url) THEN InvalidUrl
      ELSE NoResponse

\* the three checks of the handler, in its order; NoResponse when all pass
AnalyzeValidation(b) ==
  LET strategy == IF Has(b, "strategy") THEN b.strategy ELSE DefaultStrategy
  IN  IF UrlMissing(b) THEN UrlRequired
      ELSE IF ~isValidUrl(b.url) THEN InvalidUrl
      ELSE IF strategy \notin ValidStrategies THEN InvalidStrategy
      ELSE NoResponse

AnalyzeReceive(b) ==
  LET strategy   == IF Has(b, "strategy") THEN b.strategy ELSE DefaultStrategy
      categories == IF Has(b, "categories") THEN b.categories ELSE DefaultCategories
  IN  /\ pc = "Idle"
      /\ handler' = "analyze"
      /\ body' = b
      /\ UNCHANGED PAGESPEED_API_KEY
      /\ UNCHANGED uiVars
      /\ IF AnalyzeValidation(b) # NoResponse THEN
           Reject(AnalyzeValidation(b))
         ELSE
           Issue(<< UpstreamCall(AnalyzeParams(b.url, strategy, categories, PAGESPEED_API_KEY)) >>)

(***************************************************************************)
(* POST /api/pagespeed, after the await.                                   *)
(***************************************************************************)
AnalyzeResult(b, promise) ==
  LET strategy == IF Has(b, "strategy") THEN b.strategy ELSE DefaultStrategy
  IN  IF promise.status = "fulfilled" THEN
        IF ExtractThrows(promise.value.data) THEN Classify(TypeError)
        ELSE Response(200, [success |-> TRUE,
                            data |-> Report(b.url, strategy, promise.value.data)])
      ELSE IF Has(promise, "reason") THEN Classify(promise.reason)
      ELSE Classify(TypeError)

\* an await that resumes on fulfilment only
AwaitFulfilled(promise) == promise.status = "fulfilled"

\* await axios.get(...) resumes once the promise has settled
AwaitReady(promise) == promise.status # "pending"

\* a handler that issues the call again when it was rejected
AnalyzeSettledWithRetry ==
  /\ pc = "Requesting"
  /\ handler = "analyze"
  /\ AwaitReady(promises[Len(promises)])
  /\ IF promises[Len(promises)].status = "rejected" /\ Len(calls) < 2
     THEN /\ calls' = Append(calls, calls[1])
          /\ promises' = Append(promises, Pending)
          /\ UNCHANGED <<pc, res>>
     ELSE /\ res' = AnalyzeResult(body, promises[Len(promises)])
          /\ pc' = IF res'.status = 200 THEN "Done" ELSE "Failed"
          /\ UNCHANGED <<calls, promises>>
  /\ UNCHANGED <<PAGESPEED_API_KEY, handler, body>>
  /\ UNCHANGED uiVars

AnalyzeSettled ==
  /\ pc = "Requesting"
  /\ handler = "analyze"
  /\ AwaitReady(promises[1])
  /\ res' = AnalyzeResult(body, promises[1])
  /\ pc' = IF res'.status = 200 THEN "Done" ELSE "Failed"
  /\ UNCHANGED <<PAGESPEED_API_KEY, handler, body, calls, promises>>
  /\ UNCHANGED uiVars

(***************************************************************************)
(* POST /api/pagespeed/compare.                                            *)
(***************************************************************************)
\* a validation that asks for the presence of url only
CompareUrlPresentOnly(b) == UrlMissing(b)

\* !url || !isValidUrl(url)
CompareUrlRefused(b) == UrlMissing(b) \/ ~isValidUrl(b.url)

CompareReceive(b) ==
  /\ pc = "Idle"
  /\ handler' = "compare"
  /\ body' = b
  /\ UNCHANGED PAGESPEED_API_KEY
  /\ UNCHANGED uiVars
  /\ IF CompareUrlRefused(b) THEN
       Reject(Response(400, [error |-> "Invalid URL",
                             message |-> <<"Please provide a valid URL">>]))
     ELSE
       Issue(<< UpstreamCall(CompareParams(b.url, "mobile", PAGESPEED_API_KEY)),
                UpstreamCall(CompareParams(b.url, "desktop", PAGESPEED_API_KEY)) >>)

CompareSettled ==
  /\ pc = "Requesting"
  /\ handler = "compare"
  /\ AllSettled(promises)
  /\ res' = CompareMerge(body.url, promises[1], promises[2])
  /\ pc' = IF res'.status = 200 THEN "Done" ELSE "Failed"
  /\ UNCHANGED <<PAGESPEED_API_KEY, handler, body, calls, promises>>
  /\ UNCHANGED uiVars

(***************************************************************************)
(* The upstream provider and the transport settle a pending call.          *)
(***************************************************************************)
Settle(i, outcome) ==
  /\ pc = "Requesting"
  /\ i \in 1..Len(promises)
  /\ promises[i] = Pending
  /\ promises' = [promises EXCEPT ![i] = outcome]
  /\ UNCHANGED <<PAGESPEED_API_KEY, handler, pc, body, calls, res>>
  /\ UNCHANGED uiVars

\* a 2xx answer
UpstreamAnswers(i, data) == Settle(i, Fulfilled(data))

\* an answer outside 2xx
UpstreamRefuses(i, status, data) == Settle(i, Rejected(HttpError(status, data)))

\* no answer within the timeout
UpstreamTimesOut(i) == Settle(i, Rejected(TimeoutError))

\* the connection fails
TransportFails(i, error) == Settle(i, Rejected(error))

\* the response has been sent; the server takes the next request
NextRequest ==
  /\ pc \in {"Done", "Failed"}
  /\ pc' = "Idle"
  /\ handler' = "none"
  /\ body' = <<>>
  /\ calls' = <<>>
  /\ promises' = <<>>
  /\ res' = NoResponse
  /\ UNCHANGED PAGESPEED_API_KEY
  /\ UNCHANGED uiVars

\* the bodies sent to the Compare route; it reads url only
CompareBodies ==
  {Body(u, o[1], o[2]) : u \in Opt(Urls), o \in {<< <<>>, <<>> >>, << <<"desktop">>, << <<"seo">> >> >>}}

Next ==
  \/ pc = "Idle" /\ \E b \in Bodies : AnalyzeReceive(b)
  \/ AnalyzeSettled
  \/ pc = "Idle" /\ \E b \in CompareBodies : CompareReceive(b)
  \/ CompareSettled
  \/ \E i \in 1..2, data \in (IF handler = "compare" THEN ComparePayloads ELSE Payloads) :
        UpstreamAnswers(i, data)
  \/ \E i \in 1..2, status \in HttpErrorStatuses, data \in ErrorBodies :
        UpstreamRefuses(i, status, data)
  \/ \E i \in 1..2 : UpstreamTimesOut(i)
  \/ \E i \in 1..2, error \in TransportErrors : TransportFails(i, error)
  \/ NextRequest

Spec == Init /\ [][Next]_vars

(***************************************************************************)
(* The frontends: checkSpeed of App.tsx and of the animated App.           *)
(***************************************************************************)
Apps == {"App.tsx", "animated"}

\* the most setTimeout callbacks that wait at a time
MaxTimers == 4

\* the time that passes in one step of the clock, in ms
TickMs == 100

\* setTimeout(..., 800): the light effect ends and the overlay is shown
AnalyzingOnDelay == 800

\* setTimeout(() => setIsAnalyzing(false), 500)
AnalyzingOffDelay == 500

HttpPrefix  == <<"h","t","t","p",":","/","/">>
HttpsPrefix == <<"h","t","t","p","s",":","/","/">>

\* what the user types into the url field
InputUrls ==
  { <<>>, <<" ">>, <<"a",".","c","o","m">>, <<" ","a",".","i","o"," ">>,
    <<"h","t","t","p",":","/","/","a",".","c","o","m">> }

\* String.prototype.trim
StringTrim(s) == TrimRight(TrimLeft(s))

\* String.prototype.startsWith
StartsWith(s, prefix) ==
  Len(s) >= Len(prefix) /\ SubSeq(s, 1, Len(prefix)) = prefix

\* formattedUrl
FormattedUrl(u) ==
  IF ~StartsWith(StringTrim(u), HttpPrefix) /\ ~StartsWith(StringTrim(u), HttpsPrefix)
  THEN HttpsPrefix \o StringTrim(u)
  ELSE StringTrim(u)

\* the body of the POST to /api/pagespeed
FetchRequest(u, s) ==
  [url |-> FormattedUrl(u), strategy |-> s, categories |-> <<"performance">>]

\* a response text: JSON of a value, only white space, or anything else
Json(value) == [kind |-> "json", value |-> value]
Blank       == [kind |-> "blank"]
NotJson     == [kind |-> "html"]

\* fetch rejects: the server cannot be reached
NetworkFailure == [failed |-> TRUE, message |-> <<"Failed to fetch">>]

\* fetch fulfils with a response
HttpResponse(ok, statusText, text) ==
  [failed |-> FALSE, ok |-> ok, statusText |-> statusText, text |-> text]

\* the 200 body of the Analyze handler
SuccessBody ==
  [success |-> TRUE,
   data |-> Report(HttpPrefix \o <<"a",".","c","o","m">>, "mobile",
                   ScoredPayload(Num(900), FullAudits))]

\* the ways the awaited fetch and response.text() end
FetchOutcomes ==
  {o : o \in
     { NetworkFailure,
       HttpResponse(TRUE, <<"OK">>, Json(SuccessBody)),
       HttpResponse(TRUE, <<"OK">>, Json([success |-> TRUE])),
       HttpResponse(TRUE, <<"OK">>, Json([success |-> FALSE, data |-> SuccessBody.data])),
       HttpResponse(TRUE, <<"OK">>, Json(Null)),
       HttpResponse(TRUE, <<"OK">>, Json([error |-> "Busy", message |-> <<"Try again">>])),
       HttpResponse(TRUE, <<"OK">>, Json([error |-> "Busy"])),
       HttpResponse(TRUE, <<"OK">>, Blank),
       HttpResponse(TRUE, <<"OK">>, NotJson),
       HttpResponse(FALSE, <<"Bad Request">>, Json(InvalidUrl.body)),
       HttpResponse(FALSE, <<"Too Many Requests">>, Json([error |-> "Rate Limited"])),
       HttpResponse(FALSE, <<"Internal Server Error">>, Json(Null)),
       HttpResponse(FALSE, <<"Bad Gateway">>, NotJson),
       HttpResponse(FALSE, <<>>, NotJson),
       HttpResponse(FALSE, <<>>, Blank) }}

\* errorData.message || errorMessage, and response.statusText || errorMessage
\* when the text is not JSON or reading the message throws
HttpErrorMessage(r) ==
  IF r.text.kind = "json" /\ r.text.value # Null
  THEN IF Has(r.text.value, "message") /\ r.text.value.message # <<>>
       THEN r.text.value.message
       ELSE <<"Failed to check page speed">>
  ELSE IF r.statusText # <<>> THEN r.statusText
       ELSE <<"Failed to check page speed">>

\* the message of the SyntaxError of JSON.parse, and of the TypeError of a
\* property read on null
SyntaxErrorMessage == <<"Unexpected token < in JSON at position 0">>
NullReadMessage    == <<"Cannot read properties of null">>

\* a checkSpeed that returns on a response that is not ok
ThrownSilentOnHttpError(a, r) ==
  IF r.failed THEN Str(r.message) ELSE Null

\* the message of the error the try block throws, Null when it throws none
Thrown(a, r) ==
  IF r.failed THEN Str(r.message)
  ELSE IF ~r.ok THEN Str(HttpErrorMessage(r))
  ELSE IF r.text.kind = "blank" THEN Str(<<"Empty response from server">>)
  ELSE IF r.text.kind # "json" THEN
    IF a = "App.tsx" THEN Str(<<"Invalid response format from server">>)
    ELSE Str(SyntaxErrorMessage)
  ELSE LET data == r.text.value
       IN  IF data = Null THEN Str(NullReadMessage)
           ELSE IF a = "animated" /\ Has(data, "error") THEN
             Str(IF Has(data, "message") THEN data.message ELSE <<>>)
           ELSE IF Has(data, "success") /\ data.success /\ Has(data, "data") THEN Null
           ELSE Str(<<"Invalid response format">>)

\* the argument of setResult, Null when the try block does not reach it
Shown(a, r) ==
  IF /\ ~r.failed
     /\ r.ok
     /\ r.text.kind = "json"
     /\ r.text.value # Null
     /\ ~(a = "animated" /\ Has(r.text.value, "error"))
     /\ Has(r.text.value, "success")
     /\ r.text.value.success
     /\ Has(r.text.value, "data")
  THEN r.text.value.data
  ELSE Null

\* a callback handed to setTimeout
Timer(callback, delay) == [callback |-> callback, remaining |-> delay]

\* onChange of the url field; the field is disabled while loading
SetUrl(u) ==
  /\ loading = FALSE
  /\ inputUrl # u
  /\ inputUrl' = u
  /\ UNCHANGED <<app, selectedStrategy, uiResult, loading, uiError,
                 isAnalyzing, showLightEffect, timers, fetching>>
  /\ UNCHANGED serverVars

\* onChange of the device select; the select is disabled while loading
SetStrategy(s) ==
  /\ loading = FALSE
  /\ selectedStrategy # s
  /\ selectedStrategy' = s
  /\ UNCHANGED <<app, inputUrl, uiResult, loading, uiError,
                 isAnalyzing, showLightEffect, timers, fetching>>
  /\ UNCHANGED serverVars

\* onClick of the button, disabled while loading: checkSpeed up to its await
CheckSpeed ==
  /\ loading = FALSE
  /\ app = "animated" => Len(timers) + 2 <= MaxTimers
  /\ IF StringTrim(inputUrl) = <<>>
     THEN /\ uiError' = Str(<<"Please enter a valid URL">>)
          /\ UNCHANGED <<uiResult, loading, showLightEffect, timers, fetching>>
     ELSE /\ loading' = TRUE
          /\ uiError' = Null
          /\ uiResult' = Null
          /\ fetching' = <<FetchRequest(inputUrl, selectedStrategy)>>
          /\ IF app = "animated"
             THEN /\ showLightEffect' = TRUE
                  /\ timers' = Append(timers, Timer("startAnalyzing", AnalyzingOnDelay))
             ELSE UNCHANGED <<showLightEffect, timers>>
  /\ UNCHANGED <<app, inputUrl, selectedStrategy, isAnalyzing>>
  /\ UNCHANGED serverVars

\* the awaited fetch ends: the rest of the try block, catch and finally
FetchSettles(r) ==
  /\ fetching # <<>>
  /\ uiResult' = (IF Shown(app, r) # Null THEN Shown(app, r) ELSE uiResult)
  /\ uiError' = (IF Thrown(app, r) # Null THEN Thrown(app, r) ELSE uiError)
  /\ loading' = FALSE
  /\ fetching' = <<>>
  /\ IF app = "animated"
     THEN timers' = Append(timers, Timer("stopAnalyzing", AnalyzingOffDelay))
     ELSE UNCHANGED timers
  /\ UNCHANGED <<app, inputUrl, selectedStrategy, isAnalyzing, showLightEffect>>
  /\ UNCHANGED serverVars

\* the timers whose delay has passed
Due == {i \in 1..Len(timers) : timers[i].remaining = 0}

\* the callback of the timer that is due and was created first runs
TimerFires ==
  /\ Due # {}
  /\ LET i == CHOOSE d \in Due : \A e \in Due : d <= e
     IN  /\ timers' = SubSeq(timers, 1, i - 1) \o SubSeq(timers, i + 1, Len(timers))
         /\ IF timers[i].callback = "startAnalyzing"
            THEN /\ showLightEffect' = FALSE
                 /\ isAnalyzing' = TRUE
            ELSE /\ isAnalyzing' = FALSE
                 /\ UNCHANGED showLightEffect
  /\ UNCHANGED <<app, inputUrl, selectedStrategy, uiResult, loading, uiError, fetching>>
  /\ UNCHANGED serverVars

\* time passes, no further than the next timer that is due
Tick ==
  /\ timers # <<>>
  /\ Due = {}
  /\ timers' = [i \in 1..Len(timers) |->
                  [timers[i] EXCEPT !.remaining = @ - TickMs]]
  /\ UNCHANGED <<app, inputUrl, selectedStrategy, uiResult, loading, uiError,
                 isAnalyzing, showLightEffect, fetching>>
  /\ UNCHANGED serverVars

UIInit == ServerInit /\ \E a \in Apps : Mounted(a)

UINext ==
  \/ \E u \in InputUrls : SetUrl(u)
  \/ \E s \in {"mobile", "desktop"} : SetStrategy(s)
  \/ CheckSpeed
  \/ \E r \in FetchOutcomes : FetchSettles(r)
  \/ TimerFires
  \/ Tick

UISpec == UIInit /\ [][UINext]_vars

(***************************************************************************)
(* Vocabulary of the properties.                                           *)
(***************************************************************************)
Terminal == pc \in {"Done", "Failed"}

\* the error kind that a response's error label stands for
KindOf(label) ==
  CASE label = "URL is required"       -> "MissingInput"
    [] label = "Invalid URL"           -> "InvalidUrl"
    [] label = "Invalid strategy"      -> "InvalidStrategy"
    [] label = "Bad Request"           -> "BadUpstreamRequest"
    [] label = "API Key Error"         -> "CredentialError"
    [] label = "Rate Limited"          -> "UpstreamRateLimited"
    [] label = "API Error"             -> "UpstreamError"
    [] label = "Timeout"               -> "Timeout"
    [] label = "Internal Server Error" -> "InternalError"
    [] OTHER                           -> "Unknown"

LocalKinds == {"MissingInput", "InvalidUrl", "InvalidStrategy"}

\* the request was refused with the given kind before any upstream call
RefusedLocally(kind) ==
  /\ pc = "Failed"
  /\ res.status = 400
  /\ DOMAIN res.body = {"error", "message"}
  /\ KindOf(res.body.error) = kind
  /\ calls = <<>>
  /\ promises = <<>>

UrlAbsentOrEmpty == "url" \notin DOMAIN body \/ body.url = <<>>

\* the url has no ":" and so no scheme
SchemeLess(u) == \A i \in 1..Len(u) : u[i] # ":"

ExampleCom == <<"e","x","a","m","p","l","e",".","c","o","m">>

\* the values of the query parameters of the given name, in order
QueryValues(query, name) ==
  LET named == SelectSeq(query, LAMBDA e : e.name = name)
  IN  [i \in 1..Len(named) |-> named[i].value]

(***************************************************************************)
(* C1.  An Analyze request whose url is absent or empty is answered 400    *)
(* MissingInput, and at no point of its handling is an upstream call       *)
(* issued.                                                                 *)
(***************************************************************************)
C1_MissingInput ==
  (handler = "analyze" /\ UrlAbsentOrEmpty) => RefusedLocally("MissingInput")

C1_Witness ==
  /\ handler = "analyze"
  /\ "url" \in DOMAIN body
  /\ body.url = <<>>
  /\ res.status = 400

(***************************************************************************)
(* C2.  An Analyze request whose non-empty url does not parse as an        *)
(* absolute URL, scheme-less input such as "example.com" included, is      *)
(* answered 400 InvalidUrl and no upstream call is issued.                 *)
(***************************************************************************)
C2_InvalidUrl ==
  ( /\ handler = "analyze"
    /\ ~UrlAbsentOrEmpty
    /\ ~isValidUrl(body.url) \/ SchemeLess(body.url) )
  => RefusedLocally("InvalidUrl")

C2_Witness ==
  /\ handler = "analyze"
  /\ "url" \in DOMAIN body
  /\ body.url = ExampleCom
  /\ res.status = 400
  /\ res.body.error = "Invalid URL"

(***************************************************************************)
(* C3.  An Analyze request with a valid url and a supplied strategy other  *)
(* than exactly "mobile" or "desktop" is answered 400 InvalidStrategy; a   *)
(* response of a local validation kind never comes with an upstream call.  *)
(***************************************************************************)
C3_InvalidStrategy ==
  /\ ( /\ handler = "analyze"
       /\ ~UrlAbsentOrEmpty
       /\ isValidUrl(body.url)
       /\ "strategy" \in DOMAIN body
       /\ body.strategy \notin {"mobile", "desktop"} )
     => RefusedLocally("InvalidStrategy")
  /\ ( /\ handler = "analyze"
       /\ Terminal
       /\ "error" \in DOMAIN res.body
       /\ KindOf(res.body.error) \in LocalKinds )
     => calls = <<>>

C3_Witness ==
  /\ handler = "analyze"
  /\ "strategy" \in DOMAIN body
  /\ body.strategy = "tablet"
  /\ res.status = 400
  /\ res.body.error = "Invalid strategy"

(***************************************************************************)
(* C4.  The upstream query of Analyze carries one category parameter per   *)
(* entry of the requested categories: every requested category reaches     *)
(* the query and none is dropped.                                          *)
(***************************************************************************)
C4_EveryCategoryReachesUpstream ==
  ( /\ handler = "analyze"
    /\ calls # <<>>
    /\ "categories" \in DOMAIN body )
  => QueryValues(calls[1].query, "category") = body.categories

(***************************************************************************)
(* C5.  Compare fails request-wide only on local validation errors: for a  *)
(* url that passes validation, whatever the two upstream outcomes          *)
(* (success, HTTP error, timeout, 2xx payload missing a field), the        *)
(* response is success:true with one outcome per strategy.                 *)
(***************************************************************************)
C5_CompareNeverFailsRequestWide ==
  ( /\ handler = "compare"
    /\ Terminal
    /\ ~UrlAbsentOrEmpty
    /\ isValidUrl(body.url) )
  => /\ res.status = 200
     /\ res.body.success = TRUE
     /\ DOMAIN res.body.data = {"mobile", "desktop"}

(***************************************************************************)
(* C6.  In Compare the two outcomes are independent: when each call either *)
(* succeeds with a category score s or fails, each strategy's outcome is   *)
(* {status: success, score: round(100*s)} or {status: failed, score: null, *)
(* error: message} according to its own call alone; mobile succeeding with *)
(* 0.9 and desktop timing out gives mobile {success, 90} and desktop       *)
(* {failed, null, error}.                                                  *)
(***************************************************************************)
\* the call failed, or it succeeded with a numeric performance score
SucceededOrFailed(promise) ==
  \/ promise.status = "rejected"
  \/ /\ promise.status = "fulfilled"
     /\ "lighthouseResult" \in DOMAIN promise.value.data
     /\ "categories" \in DOMAIN promise.value.data.lighthouseResult
     /\ "performance" \in DOMAIN promise.value.data.lighthouseResult.categories
     /\ "score" \in DOMAIN promise.value.data.lighthouseResult.categories.performance
     /\ promise.value.data.lighthouseResult.categories.performance.score.t = "number"

\* the outcome that a call's own settlement calls for
OwnOutcome(promise) ==
  IF promise.status = "fulfilled"
  THEN LET s == promise.value.data.lighthouseResult.categories.performance.score
       IN  [status |-> "success", score |-> MathRound(Times100(s))]
  ELSE [status |-> "failed", score |-> Null, error |-> promise.reason.message]

C7_ResponseAfterBothSettled ==
  ( /\ handler = "compare"
    /\ calls # <<>>
    /\ res # NoResponse )
  => /\ Len(promises) = 2
     /\ promises[1].status \in {"fulfilled", "rejected"}
     /\ promises[2].status \in {"fulfilled", "rejected"}

C7_Witness ==
  /\ handler = "compare"
  /\ calls # <<>>
  /\ res # NoResponse
  /\ promises[1].status = "rejected"
  /\ promises[2].status = "fulfilled"

(***************************************************************************)
(* C8.  An Analyze request that passes validation issues exactly one       *)
(* upstream call; a 2xx answer leads to the report and Done, a failure     *)
(* leads to Failed with a classified error, and no further call is issued  *)
(* for the request once the first has been issued.                         *)
(***************************************************************************)
PassesValidation ==
  /\ ~UrlAbsentOrEmpty
  /\ isValidUrl(body.url)
  /\ "strategy" \in DOMAIN body => body.strategy \in {"mobile", "desktop"}

C8_OneCallState ==
  handler = "analyze" =>
    /\ Len(calls) = (IF PassesValidation THEN 1 ELSE 0)
    /\ Len(promises) = Len(calls)
    /\ pc = "Done" =>
         /\ promises[1].status = "fulfilled"
         /\ res.status = 200
         /\ res.body.success = TRUE
    /\ (Terminal /\ calls # <<>> /\ promises[1].status = "rejected") =>
         /\ pc = "Failed"
         /\ res.status # 200
         /\ KindOf(res.body.error) \in
              {"BadUpstreamRequest", "CredentialError", "UpstreamRateLimited",
               "UpstreamError", "Timeout", "InternalError"}
    /\ (Terminal /\ calls # <<>> /\ promises[1].status = "fulfilled"
          /\ promises[1].value.data \in WellFormedPayloads) =>
         pc = "Done"

C8_ExactlyOneUpstreamCall ==
  /\ []C8_OneCallState
  /\ [][(handler = "analyze" /\ calls # <<>>) => (calls' = calls \/ handler' = "none")]_vars

C8_Witness ==
  /\ handler = "analyze"
  /\ pc = "Failed"
  /\ Len(calls) = 1
  /\ promises[1].status = "rejected"

(***************************************************************************)
(* C9.  The classifier of upstream failures is total and follows the       *)
(* table: HTTP 400 gives BadUpstreamRequest with status 400, the upstream  *)
(* message and the itemized sub-errors as details; 403 CredentialError;    *)
(* 429 UpstreamRateLimited; any other status UpstreamError with the        *)
(* upstream message; a timeout the distinct kind Timeout; any other        *)
(* transport or parse failure InternalError with a generic message.        *)
(***************************************************************************)
\* the message of the upstream error body, when it carries one
HasUpstreamText(data) ==
  /\ "error" \in DOMAIN data
  /\ "message" \in DOMAIN data.error
  /\ data.error.message # ""

CarriesUpstreamText(message, data) ==
  HasUpstreamText(data) => \E i \in 1..Len(message) : message[i] = data.error.message

GenericInternalError ==
  /\ res.status = 500
  /\ KindOf(res.body.error) = "InternalError"
  /\ res.body.message = <<"An unexpected error occurred">>
  /\ DOMAIN res.body = {"error", "message"}

\* a 2xx payload without the performance category or without a metric audit
UnreadablePayload(data) ==
  \/ data = [kind |-> "pagespeedonline#result"]
  \/ /\ "lighthouseResult" \in DOMAIN data
     /\ \/ "performance" \notin DOMAIN data.lighthouseResult.categories
        \/ data.lighthouseResult.audits = AuditsWithoutTBT

ClassifiedByTable(reason) ==
  IF "response" \in DOMAIN reason THEN
    LET status == reason.response.status
        data   == reason.response.data
    IN  /\ res.status = status
        /\ status = 400 =>
             /\ KindOf(res.body.error) = "BadUpstreamRequest"
             /\ CarriesUpstreamText(res.body.message, data)
             /\ res.body.details =
                  (IF "error" \in DOMAIN data /\ "errors" \in DOMAIN data.error
                   THEN Arr(data.error.errors) ELSE Null)
        /\ status = 403 => KindOf(res.body.error) = "CredentialError"
        /\ status = 429 => KindOf(res.body.error) = "UpstreamRateLimited"
        /\ status \notin {400, 403, 429} =>
             /\ KindOf(res.body.error) = "UpstreamError"
             /\ CarriesUpstreamText(res.body.message, data)
  ELSE IF reason.code = "ECONNABORTED" THEN
    /\ KindOf(res.body.error) = "Timeout"
    /\ res.status = 408
  ELSE GenericInternalError

C9_ClassifierMatchesTable ==
  (handler = "analyze" /\ Terminal /\ calls # <<>>) =>
    IF promises[1].status = "rejected"
    THEN /\ pc = "Failed"
         /\ ClassifiedByTable(promises[1].reason)
    ELSE UnreadablePayload(promises[1].value.data) =>
           (pc = "Failed" /\ GenericInternalError)

C9_Witness ==
  /\ handler = "analyze"
  /\ Terminal
  /\ calls # <<>>
  /\ promises[1] = Rejected(TimeoutError)
  /\ res.status = 408

(***************************************************************************)
(* C10.  For an upstream HTTP 403 on Analyze the response is a             *)
(* CredentialError whose message is one fixed generic text, the same for   *)
(* every upstream error body; it contains no upstream error text.          *)
(***************************************************************************)
C10_CredentialMessageFixed ==
  ( /\ handler = "analyze"
    /\ Terminal
    /\ calls # <<>>
    /\ promises[1].status = "rejected"
    /\ "response" \in DOMAIN promises[1].reason
    /\ promises[1].reason.response.status = 403 )
  => res = [status |-> 403,
            body |-> [error |-> "API Key Error",
                      message |-> <<"Invalid or missing Google API key. Please check your API key configuration.">>]]

C10_Witness ==
  /\ handler = "analyze"
  /\ Terminal
  /\ calls # <<>>
  /\ promises[1].status = "rejected"
  /\ "response" \in DOMAIN promises[1].reason
  /\ promises[1].reason.response.status = 403
  /\ HasUpstreamText(promises[1].reason.response.data)
  /\ res.status = 403

(***************************************************************************)
(* C11.  When the audits of a 2xx payload lack any one of the five metric  *)
(* audits, Analyze answers with an internal error: no success report, and  *)
(* the one upstream call is not issued again.                              *)
(***************************************************************************)
FiveMetricAudits ==
  {"first-contentful-paint", "largest-contentful-paint", "speed-index",
   "total-blocking-time", "cumulative-layout-shift"}

\* the audit keys of a payload that has an audits collection
AuditKeys(data) ==
  {data.lighthouseResult.audits[i].key : i \in 1..Len(data.lighthouseResult.audits)}

LacksMetric(data) ==
  /\ "lighthouseResult" \in DOMAIN data
  /\ "audits" \in DOMAIN data.lighthouseResult
  /\ \E key \in FiveMetricAudits : key \notin AuditKeys(data)

C11_MissingMetricIsInternalError ==
  ( /\ handler = "analyze"
    /\ calls # <<>>
    /\ promises[1].status = "fulfilled"
    /\ LacksMetric(promises[1].value.data) )
  => /\ Len(calls) = 1
     /\ Terminal =>
          /\ pc = "Failed"
          /\ GenericInternalError
          /\ "success" \notin DOMAIN res.body
          /\ "data" \notin DOMAIN res.body

C11_Witness ==
  /\ handler = "analyze"
  /\ pc = "Failed"
  /\ Len(calls) = 1
  /\ promises[1].status = "fulfilled"
  /\ LacksMetric(promises[1].value.data)
  /\ "largest-contentful-paint" \notin AuditKeys(promises[1].value.data)
  /\ res.status = 500

(***************************************************************************)
(* C12.  The opportunities of a report are the first min(5, n) of the n    *)
(* audit entries whose details.overallSavingsMs is strictly above 100, in  *)
(* the upstream order; the cut to five comes after the filter.  Savings of *)
(* 50, 150, 900, 101, 99, 5000, 200 give 150, 900, 101, 5000, 200.         *)
(***************************************************************************)
\* <<title, savings>> of the entries, in order, whose savings exceed 100 ms
RECURSIVE SavingsAbove100(_)
SavingsAbove100(audits) ==
  IF audits = <<>> THEN <<>>
  ELSE LET audit == Head(audits).audit
           rest  == SavingsAbove100(Tail(audits))
       IN  IF /\ "details" \in DOMAIN audit
              /\ "overallSavingsMs" \in DOMAIN audit.details
              /\ audit.details.overallSavingsMs.v > 100
           THEN << <<audit.title, audit.details.overallSavingsMs.v>> >> \o rest
           ELSE rest

\* the first min(n, Len(s)) entries of s
RECURSIVE FirstAtMost(_, _)
FirstAtMost(n, s) ==
  IF n = 0 \/ s = <<>> THEN <<>> ELSE <<Head(s)>> \o FirstAtMost(n - 1, Tail(s))

ReportedSavings(opportunities) ==
  [i \in 1..Len(opportunities) |-> <<opportunities[i].title, opportunities[i].savings.v>>]

C12_FirstFiveOpportunities ==
  (handler = "analyze" /\ pc = "Done") =>
    LET audits == promises[1].value.data.lighthouseResult.audits
        listed == ReportedSavings(res.body.data.opportunities)
    IN  /\ listed = FirstAtMost(5, SavingsAbove100(audits))
        /\ audits = SevenSavingsAudits =>
             [i \in 1..Len(listed) |-> listed[i][2]] = <<150, 900, 101, 5000, 200>>

C12_Witness ==
  /\ handler = "analyze"
  /\ pc = "Done"
  /\ promises[1].value.data.lighthouseResult.audits = ManySavingsAudits
  /\ Len(SavingsAbove100(ManySavingsAudits)) > 5
  /\ Len(res.body.data.opportunities) = 5

(***************************************************************************)
(* C13.  performanceScore is the category score times 100 rounded to the   *)
(* nearest integer, halves away from zero: an integer in 0..100, 87 for a  *)
(* score of 0.873; the score of a successful Compare outcome follows the   *)
(* same rule.                                                              *)
(***************************************************************************)
\* score * 100 to the nearest integer, halves up, for a score in thousandths
RoundedPercent(thousandths) == (thousandths + 5) \div 10

NumericScore(data) ==
  /\ "lighthouseResult" \in DOMAIN data
  /\ "performance" \in DOMAIN data.lighthouseResult.categories
  /\ "score" \in DOMAIN data.lighthouseResult.categories.performance
  /\ data.lighthouseResult.categories.performance.score.t = "number"

ScoreFollowsRule(reported, data) ==
  LET score == data.lighthouseResult.categories.performance.score.v
  IN  /\ reported = Num(RoundedPercent(score))
      /\ reported.v \in 0..100
      /\ score = 873 => reported.v = 87

C13_ScoreRoundedHalfAwayFromZero ==
  /\ ( /\ handler = "analyze"
       /\ pc = "Done"
       /\ NumericScore(promises[1].value.data) )
     => ScoreFollowsRule(res.body.data.performanceScore, promises[1].value.data)
  /\ (handler = "compare" /\ pc = "Done") =>
       /\ ( /\ promises[1].status = "fulfilled"
            /\ NumericScore(promises[1].value.data) )
          => ScoreFollowsRule(res.body.data.mobile.score, promises[1].value.data)
       /\ ( /\ promises[2].status = "fulfilled"
            /\ NumericScore(promises[2].value.data) )
          => ScoreFollowsRule(res.body.data.desktop.score, promises[2].value.data)

(***************************************************************************)
(* C14.  For each of the five metrics, an upstream audit score of null is  *)
(* null in the report's metric sample; it is never turned into 0.          *)
(***************************************************************************)
\* <<field of result.metrics, key of the upstream audit>>
MetricFields ==
  { <<"firstContentfulPaint", "first-contentful-paint">>,
    <<"largestContentfulPaint", "largest-contentful-paint">>,
    <<"speedIndex", "speed-index">>,
    <<"totalBlockingTime", "total-blocking-time">>,
    <<"cumulativeLayoutShift", "cumulative-layout-shift">> }

\* the upstream audit of the given key
UpstreamAudit(data, key) ==
  LET audits == data.lighthouseResult.audits
  IN  audits[CHOOSE i \in 1..Len(audits) : audits[i].key = key].audit

C14_NullScorePropagates ==
  (handler = "analyze" /\ pc = "Done") =>
    \A f \in MetricFields :
      LET upstream == UpstreamAudit(promises[1].value.data, f[2])
          sample   == res.body.data.metrics[f[1]]
      IN  /\ upstream.score = Null => sample.score = Null
          /\ sample.score = upstream.score

C14_Witness ==
  /\ handler = "analyze"
  /\ pc = "Done"
  /\ \A f \in MetricFields :
       /\ UpstreamAudit(promises[1].value.data, f[2]).score = Null
       /\ res.body.data.metrics[f[1]].score = Null

(***************************************************************************)
(* C15.  Every upstream query of Analyze carries at least one category:    *)
(* exactly performance when the caller omits categories, and no request    *)
(* body, an empty categories sequence included, leads to a query without   *)
(* a category parameter.                                                   *)
(***************************************************************************)
C15_QueryAlwaysHasCategory ==
  (handler = "analyze" /\ calls # <<>>) =>
    /\ QueryValues(calls[1].query, "category") # <<>>
    /\ "categories" \notin DOMAIN body =>
         QueryValues(calls[1].query, "category") = <<"performance">>

(***************************************************************************)
(* C16.  An Analyze request without strategy is handled as mobile and one  *)
(* without categories as {performance}: the upstream query carries these   *)
(* values and the report's strategy is the strategy of the query.          *)
(***************************************************************************)
C16_DefaultsReachQueryAndReport ==
  (handler = "analyze" /\ calls # <<>>) =>
    LET asked == IF "strategy" \in DOMAIN body THEN body.strategy ELSE "mobile"
    IN  /\ QueryValues(calls[1].query, "strategy") = <<asked>>
        /\ pc = "Done" => res.body.data.strategy = asked
        /\ "categories" \notin DOMAIN body =>
             QueryValues(calls[1].query, "category") = <<"performance">>

C16_Witness ==
  /\ handler = "analyze"
  /\ pc = "Done"
  /\ DOMAIN body = {"url"}
  /\ QueryValues(calls[1].query, "strategy") = <<"mobile">>
  /\ QueryValues(calls[1].query, "category") = <<"performance">>
  /\ res.body.data.strategy = "mobile"

(***************************************************************************)
(* C17.  Every upstream query, of Analyze and of both calls of Compare,    *)
(* has the url and the strategy, and has the credential parameter exactly  *)
(* when a credential is configured; without a credential the calls are     *)
(* still issued and no error comes of it.                                  *)
(***************************************************************************)
\* GOOGLE_API_KEY is set to a key
CredentialConfigured == PAGESPEED_API_KEY \notin {undefined, ""}

\* the url passes the validation of the handler that serves the request
UrlAccepted == ~UrlAbsentOrEmpty /\ isValidUrl(body.url)

C17_CredentialIffConfigured ==
  /\ \A i \in 1..Len(calls) :
       /\ QueryValues(calls[i].query, "url") = <<body.url>>
       /\ Len(QueryValues(calls[i].query, "strategy")) = 1
       /\ (QueryValues(calls[i].query, "key") # <<>>) <=> CredentialConfigured
  /\ (handler = "analyze" /\ PassesValidation) => Len(calls) = 1
  /\ (handler = "compare" /\ UrlAccepted) => Len(calls) = 2

(***************************************************************************)
(* C18.  On every url that Analyze refuses (absent, empty, not an absolute *)
(* URL) Compare answers 400 with a body of error and message and issues no *)
(* upstream call; on every url that Analyze accepts Compare issues its     *)
(* upstream calls.                                                         *)
(***************************************************************************)
C18_CompareValidatesUrlAsAnalyze ==
  handler = "compare" =>
    /\ IF UrlAbsentOrEmpty \/ ~isValidUrl(body.url)
       THEN /\ pc = "Failed"
            /\ res.status = 400
            /\ DOMAIN res.body = {"error", "message"}
            /\ KindOf(res.body.error) = "InvalidUrl"
            /\ calls = <<>>
            /\ promises = <<>>
       ELSE /\ Len(calls) = 2
            /\ res.status # 400
    /\ (~UrlAbsentOrEmpty /\ SchemeLess(body.url)) => calls = <<>>

C18_Witness ==
  /\ handler = "compare"
  /\ "url" \in DOMAIN body
  /\ body.url = ExampleCom
  /\ pc = "Failed"
  /\ res.status = 400
  /\ calls = <<>>

(***************************************************************************)
(* C19.  The screenshot and the field data are optional: a payload without *)
(* loadingExperience, without the final-screenshot audit, or without its   *)
(* details or their data still gives a report, with fieldData or           *)
(* screenshot null; a value that is present is reported unchanged.         *)
(***************************************************************************)
\* the payload carries audits['final-screenshot'].details.data
HasScreenshot(data) ==
  /\ "final-screenshot" \in AuditKeys(data)
  /\ "details" \in DOMAIN UpstreamAudit(data, "final-screenshot")
  /\ "data" \in DOMAIN UpstreamAudit(data, "final-screenshot").details

\* the payload has everything a report needs but an optional part
OnlyOptionalPartMissing(data) ==
  /\ "lighthouseResult" \in DOMAIN data
  /\ "categories" \in DOMAIN data.lighthouseResult
  /\ "performance" \in DOMAIN data.lighthouseResult.categories
  /\ "audits" \in DOMAIN data.lighthouseResult
  /\ ~LacksMetric(data)
  /\ "loadingExperience" \notin DOMAIN data \/ ~HasScreenshot(data)

C20_TwoCallsState ==
  (handler = "compare" /\ UrlAccepted) =>
    /\ Len(calls) = 2
    /\ QueryValues(calls[1].query, "strategy") = <<"mobile">>
    /\ QueryValues(calls[2].query, "strategy") = <<"desktop">>
    /\ \A i \in 1..2 :
         /\ QueryValues(calls[i].query, "category") = <<"performance">>
         /\ QueryValues(calls[i].query, "url") = <<body.url>>

C20_TwoCallsIssuedTogether ==
  /\ []C20_TwoCallsState
  /\ [][(handler' = "compare" /\ calls' # calls /\ calls' # <<>>) =>
          /\ calls = <<>>
          /\ Len(calls') = 2
          /\ promises' = <<Pending, Pending>>]_vars

C20_Witness ==
  /\ handler = "compare"
  /\ "strategy" \in DOMAIN body
  /\ body.strategy = "desktop"
  /\ "categories" \in DOMAIN body
  /\ body.categories = <<"seo">>
  /\ Len(calls) = 2
  /\ promises[1] = Pending
  /\ promises[2].status = "fulfilled"

(***************************************************************************)
(* C21.  Every Analyze request ends in exactly one of Done and Failed and  *)
(* sends exactly one response, given that its upstream call is answered,   *)
(* fails or times out; nothing of the request changes once it has ended.   *)
(***************************************************************************)
\* the one upstream call of the request settles
UpstreamSettles == UpstreamTimesOut(1)

\* the call that is pending is settled, by its timeout if by nothing else, and
\* the handler that can resume does resume
FairSpec == Spec /\ WF_vars(UpstreamSettles) /\ WF_vars(AnalyzeSettled)

C21_EndedState ==
  handler = "analyze" =>
    /\ pc \in {"Requesting", "Done", "Failed"}
    /\ (res # NoResponse) <=> Terminal
    /\ pc = "Done" => res.status = 200
    /\ pc = "Failed" => res.status \in 400..599

C21_AnalyzeTerminatesOnce ==
  /\ []C21_EndedState
  /\ [][(handler = "analyze" /\ Terminal) =>
          \/ <<pc, res, calls, promises, body>>' = <<pc, res, calls, promises, body>>
          \/ handler' = "none"]_vars
  /\ (handler = "analyze") ~> (handler = "analyze" /\ Terminal)

C21_Witness ==
  /\ handler = "analyze"
  /\ pc = "Done"
  /\ Len(calls) = 1
  /\ promises[1].status = "fulfilled"
  /\ res.status = 200
  /\ res.body.success = TRUE

(***************************************************************************)
(* C22.  In the animated frontend, after every checkSpeed that starts a    *)
(* request isAnalyzing becomes false and stays false until the next        *)
(* checkSpeed, in whatever order the 800 ms timer that sets it and the     *)
(* 500 ms timer that clears it run, also for a request that settles in     *)
(* under 300 ms: once no request is awaited and no timer waits, the        *)
(* overlay is off.                                                         *)
(***************************************************************************)
\* no request is awaited and no timer of an earlier checkSpeed waits
Quiet == fetching = <<>> /\ timers = <<>>

C22_AnalyzingOverlayClears ==
  (app = "animated" /\ Quiet) => isAnalyzing = FALSE

(***************************************************************************)
(* C23.  The validation of Analyze runs in a fixed order and its first     *)
(* failure wins: an absent or empty url is always MissingInput, a url that *)
(* does not parse is always InvalidUrl, and InvalidStrategy is returned    *)
(* only for a valid url, whatever the strategy.                            *)
(***************************************************************************)
C23_FirstValidationFailureWins ==
  (handler = "analyze" /\ Terminal) =>
    LET kind == IF "error" \in DOMAIN res.body THEN KindOf(res.body.error) ELSE "none"
    IN  /\ UrlAbsentOrEmpty => kind = "MissingInput"
        /\ (~UrlAbsentOrEmpty /\ ~isValidUrl(body.url)) => kind = "InvalidUrl"
        /\ (~UrlAbsentOrEmpty /\ SchemeLess(body.url)) => kind = "InvalidUrl"
        /\ kind = "InvalidStrategy" => (~UrlAbsentOrEmpty /\ isValidUrl(body.url))
        /\ kind \in LocalKinds => calls = <<>>

C23_Witness ==
  /\ handler = "analyze"
  /\ Terminal
  /\ "url" \notin DOMAIN body
  /\ "strategy" \in DOMAIN body
  /\ body.strategy = "tablet"
  /\ KindOf(res.body.error) = "MissingInput"

(***************************************************************************)
(* C24.  In both frontends, while a request is awaited loading is true and *)
(* result and error are both null; when it settles, with a report, an HTTP *)
(* error, an empty or unparsable body or a network failure, loading        *)
(* becomes false and exactly one of result and error is not null.          *)
(***************************************************************************)
C24_InFlight ==
  /\ loading <=> fetching # <<>>
  /\ fetching # <<>> => (uiResult = Null /\ uiError = Null)

C24_LoadingAndOneOutcome ==
  /\ []C24_InFlight
  /\ [][(fetching # <<>> /\ fetching' = <<>>) =>
          /\ loading' = FALSE
          /\ (uiResult' = Null) # (uiError' = Null)]_vars

C24_Witness ==
  /\ app = "animated"
  /\ fetching = <<>>
  /\ loading = FALSE
  /\ uiResult = Null
  /\ uiError = Str(<<"Empty response from server">>)

(***************************************************************************)
(* C25.  A 2xx payload whose performance category score is null gives a    *)
(* success report with performanceScore 0 in Analyze and the outcome       *)
(* {status: success, score: 0} for its strategy in Compare; it is never a  *)
(* failure outcome.                                                        *)
(***************************************************************************)
\* the payload has a performance category whose score is null
NullCategoryScore(promise) ==
  /\ promise.status = "fulfilled"
  /\ "lighthouseResult" \in DOMAIN promise.value.data
  /\ "performance" \in DOMAIN promise.value.data.lighthouseResult.categories
  /\ "score" \in DOMAIN promise.value.data.lighthouseResult.categories.performance
  /\ promise.value.data.lighthouseResult.categories.performance.score = Null

C25_NullCategoryScoreIsZero ==
  /\ ( /\ handler = "analyze"
       /\ Terminal
       /\ calls # <<>>
       /\ NullCategoryScore(promises[1])
       /\ ~LacksMetric(promises[1].value.data) )
     => /\ pc = "Done"
        /\ res.status = 200
        /\ res.body.success = TRUE
        /\ res.body.data.performanceScore = Num(0)
  /\ ( /\ handler = "compare"
       /\ Terminal
       /\ calls # <<>> )
     => /\ NullCategoryScore(promises[1]) =>
             /\ res.status = 200
             /\ res.body.data.mobile = [status |-> "success", score |-> Num(0)]
        /\ NullCategoryScore(promises[2]) =>
             /\ res.status = 200
             /\ res.body.data.desktop = [status |-> "success", score |-> Num(0)]

====
